---- MODULE Spec2Model ----
(***************************************************************************)
(* Model of data/download.py: the checksummed fetcher, the zip member      *)
(* extractor, the icrp107 and nist_mass_attenuation_coefficient dataset    *)
(* assemblers, the command-line selector and the material-constants        *)
(* scraper.                                                                *)
(*                                                                         *)
(* Files are records [exists, data]; data is a sequence of bytes.  A byte  *)
(* of an archive is a tuple <<archive, version, index>>, so that every     *)
(* archive image has its own bytes.  SHA-1 is modelled as collision free.  *)
(***************************************************************************)
EXTENDS Integers, Sequences, FiniteSets, TLC

VARIABLES
    pc,        \* position of the running process
    args,      \* value of args.dataset after parsing the command line
    datasets,  \* the list the selector loops over
    idx,       \* index of the current dataset in the loop
    invoked,   \* assemblers invoked by this process, in order
    err,       \* the exception that ended the process ("none" while alive)
    archive,   \* the two cached archive files in the working directory
    out,       \* the five files of icrp107/
    outDir,    \* whether the directory icrp107/ exists
    remote,    \* which archive image each URL serves
    gets,      \* HTTP GETs issued by this process
    lastReq,   \* the last GET of a download: file, range start, status
    step,      \* index of the base member being extracted
    nist,      \* the files of XrayMassAttenCoef/
    runs,      \* processes started so far
    prevOut,   \* icrp107/ as the previous completed icrp107() left it
    warm,      \* both archives were valid when the current icrp107() began
    g0,        \* value of gets when the current icrp107() began
    page,      \* material-constants page (scraper specification)
    scraped    \* result of the scraper on page

vars == <<pc, args, datasets, idx, invoked, err, archive, out, outDir, remote,
          gets, lastReq, step, nist, runs, prevOut, warm, g0, page, scraped>>

-----------------------------------------------------------------------------
(* Bounds *)

ZipLen == 2      \* bytes of an archive image
MaxArgs == 2     \* values given to --dataset
MaxRuns == 2     \* processes run one after the other
MaxPage == 7     \* tokens of a material-constants page

-----------------------------------------------------------------------------
(* Files and archives *)

NoFile == [exists |-> FALSE, data |-> <<>>]

File(d) == [exists |-> TRUE, data |-> d]

Archives == {"data", "corr"}

Versions == {"genuine", "altered"}

\* The bytes the URL of archive a serves when it serves version v.
Image(a, v) == [i \in 1..ZipLen |-> <<a, v, i>>]

Prefixes(s) == {SubSeq(s, 1, n) : n \in 0..Len(s)}

IsSuffix(s, t) ==
    /\ Len(s) <= Len(t)
    /\ SubSeq(t, Len(t) - Len(s) + 1, Len(t)) = s

Sha1(d) == <<"sha1", d>>

data_checksum == Sha1(Image("data", "genuine"))

corr_checksum == Sha1(Image("corr", "genuine"))

checksum(a) == IF a = "data" THEN data_checksum ELSE corr_checksum

base_path == "P 107 JAICRP 38(3) Nuclear Decay Data for Dosimetric Calculations(supplementary data)/"

corr_path == "Corrigenda of Publication 107/"

base_files == <<"ICRP-07.NDX", "ICRP-07.RAD", "ICRP-07.BET", "ICRP-07.NSF", "ICRP-07.ACK">>

OutNames == {base_files[i] : i \in 1..Len(base_files)}

\* Member paths of an archive image.  The altered data archive lacks the BET
\* member and the altered corrigenda archive lacks the index.
MemberPaths(a, v) ==
    IF a = "data"
    THEN {<<base_path, f>> : f \in IF v = "genuine" THEN OutNames
                                   ELSE OutNames \ {"ICRP-07.BET"}}
    ELSE IF v = "genuine" THEN {<<corr_path, "ICRP-07.NDX">>} ELSE {}

MemberData(a, v, path) == <<<<a, v, path[2]>>>>

\* zipfile.ZipFile reads the directory at the end of the file and tolerates
\* bytes in front of the archive: a file is a readable archive when it ends
\* with a whole archive image.
ZipImages(d) ==
    {av \in Archives \X Versions : IsSuffix(Image(av[1], av[2]), d)}

IsZip(d) == ZipImages(d) # {}

ZipOf(d) == CHOOSE av \in ZipImages(d) : TRUE

ZipHas(d, path) == path \in MemberPaths(ZipOf(d)[1], ZipOf(d)[2])

ZipRead(d, path) == MemberData(ZipOf(d)[1], ZipOf(d)[2], path)

-----------------------------------------------------------------------------
(* download_file, verify_file, extract_file_from_zip *)

ErrorPage == <<<<"error", "page", 0>>>>

\* Body of the response to GET with Range: bytes=<from>- when the URL serves
\* image img: 200 carries the whole content, 206 the content from the offset.
Body(status, img, from) ==
    IF status = 200 THEN img
    ELSE IF status = 206 THEN SubSeq(img, from + 1, Len(img))
    ELSE ErrorPage

Statuses(img, from) ==
    {200, 404} \cup (IF from < Len(img) THEN {206} ELSE {416})

AcceptsAnyStatus(status) == TRUE

Accepts(status) == status = 200 \/ status = 206

\* download_file with the response's status and the number of body bytes
\* written before the process was interrupted (all of them when it was not).
download_file(f, img, status, written) ==
    LET from == Len(f.data)
        body == IF Accepts(status) THEN Body(status, img, from) ELSE <<>>
    IN [file |-> File(f.data \o SubSeq(body, 1, written)),
        from |-> from,
        full |-> written = Len(body)]

WrittenChoices(f, img, status) ==
    IF Accepts(status) THEN 0..Len(Body(status, img, Len(f.data))) ELSE {0}

verify_never(f, sum) == FALSE

verify_file(f, sum) == Sha1(f.data) = sum

extract_truncating(path, zf, o, dirOK) ==
    IF ~zf.exists THEN [err |-> "FileNotFoundError", out |-> o]
    ELSE IF ~IsZip(zf.data) THEN [err |-> "BadZipFile", out |-> o]
    ELSE IF ~dirOK THEN [err |-> "FileNotFoundError", out |-> o]
    ELSE IF ~ZipHas(zf.data, path) THEN [err |-> "KeyError", out |-> File(<<>>)]
    ELSE [err |-> "none", out |-> File(ZipRead(zf.data, path))]

\* z.open(path) runs before open(output_file, "wb"): a missing member raises
\* before the output file is opened.
extract_file_from_zip(path, zf, o, dirOK) ==
    IF ~zf.exists THEN [err |-> "FileNotFoundError", out |-> o]
    ELSE IF ~IsZip(zf.data) THEN [err |-> "BadZipFile", out |-> o]
    ELSE IF ~ZipHas(zf.data, path) THEN [err |-> "KeyError", out |-> o]
    ELSE IF ~dirOK THEN [err |-> "FileNotFoundError", out |-> o]
    ELSE [err |-> "none", out |-> File(ZipRead(zf.data, path))]

-----------------------------------------------------------------------------
(* The material-constants scraper *)

Tokens == {"TABLE", "/TABLE", "TR", "LF", "CRLF"}

RECURSIVE StripCRLF(_)
\* html.replace("\r\n", "")
StripCRLF(s) ==
    IF s = <<>> THEN <<>>
    ELSE IF Head(s) = "CRLF" THEN StripCRLF(Tail(s))
    ELSE <<Head(s)>> \o StripCRLF(Tail(s))

NoLF(h, i, j) == \A k \in i..j : h[k] # "LF"

\* Ends of the matches of <TABLE.*>.*</TABLE> that start at i: "." does not
\* match a line feed.
TableEnds(h, i) ==
    {j \in (i + 1)..Len(h) : h[j] = "/TABLE" /\ NoLF(h, i, j)}

TableStarts(h) ==
    {i \in 1..Len(h) : h[i] = "TABLE" /\ TableEnds(h, i) # {}}

Min(S) == CHOOSE x \in S : \A y \in S : x <= y

Max(S) == CHOOSE x \in S : \A y \in S : x >= y

\* The quantifiers of the pattern are greedy: the match runs to the last
\* </TABLE> of the line.
GreedyEnd(h, i) == Max(TableEnds(h, i))

RECURSIVE RowsIn(_, _, _)
\* re.findall(r"<TR>(.*?)</TR>", html_table): positions of the rows, in order
RowsIn(h, i, j) ==
    IF i > j THEN <<>>
    ELSE IF h[i] = "TR" THEN <<i>> \o RowsIn(h, i + 1, j)
    ELSE RowsIn(h, i + 1, j)

Drop3(s) == IF Len(s) <= 3 THEN <<>> ELSE SubSeq(s, 4, Len(s))

TableHeader ==
    << <<"Z", "Symbol", "Element", "Z/A", "I", "Density">>,
       <<"", "", "", "", "(eV)", "(g/cm3)">> >>

\* The table nist_material_constants builds from a page: the two literal
\* rows, then one row per kept <TR> (named by its position in the html).
\* re.search returning None makes .group() raise AttributeError.
nist_material_constants(p) ==
    LET html == StripCRLF(p)
    IN IF TableStarts(html) = {}
       THEN [err |-> "AttributeError", table |-> <<>>]
       ELSE LET i == Min(TableStarts(html))
                rows == Drop3(RowsIn(html, i, GreedyEnd(html, i)))
            IN [err |-> "none",
                table |-> TableHeader \o [k \in 1..Len(rows) |-> <<"row", rows[k]>>]]

-----------------------------------------------------------------------------
(* nist_elemental_media, abstractly: the page has a <PRE> block with so     *)
(* many matching triples, or none.                                          *)

ElemPages == {[pre |-> FALSE, triples |-> 0], [pre |-> TRUE, triples |-> 1]}

ElemHeader ==
    << <<"Energy", "mu/rho", "mu_en/rho">>, <<"(MeV)", "(cm2/g)", "(cm2/g)">> >>

nist_elemental_media(p) ==
    IF ~p.pre THEN [err |-> "AttributeError", table |-> <<>>]
    ELSE [err |-> "none",
          table |-> ElemHeader \o [k \in 1..p.triples |-> <<"triple", k>>]]

\* Pages the material-constants URL serves to the assembler.
SamplePages ==
    { <<"LF">>,
      <<"TABLE", "TR", "TR", "TR", "TR", "/TABLE">> }

-----------------------------------------------------------------------------
(* The command line *)

all_datasets == <<"icrp107", "nist_mass_attenuation_coefficient">>

choices == {"all", "icrp107", "nist_mass_attenuation_coefficient"}

Words == choices \cup {"bogus"}

RECURSIVE SeqsUpTo(_, _)
SeqsUpTo(S, n) ==
    IF n = 0 THEN {<<>>}
    ELSE LET shorter == SeqsUpTo(S, n - 1)
         IN shorter \cup {Append(s, x) : s \in shorter, x \in S}

\* args.dataset: the default "all" when the flag is omitted, else the list
\* of the values given.
ArgChoices ==
    {[omitted |-> TRUE, values |-> <<>>]}
        \cup {[omitted |-> FALSE, values |-> v] : v \in SeqsUpTo(Words, MaxArgs)}

Range(s) == {s[i] : i \in 1..Len(s)}

ParseAcceptsAll(a) == TRUE

\* argparse checks every value given against choices; the default is not
\* checked.
ParseAccepts(a) == a.omitted \/ Range(a.values) \subseteq choices

\* "all" in args.dataset
HasAll(a) == a.omitted \/ "all" \in Range(a.values)

SelectFirstOnly(a) ==
    IF HasAll(a) THEN all_datasets
    ELSE IF a.values = <<>> THEN <<>> ELSE <<Head(a.values)>>

Select(a) == IF HasAll(a) THEN all_datasets ELSE a.values

-----------------------------------------------------------------------------
(* The process *)

icrp107_corr_first == <<"data_fetch", "corr_fetch", "corr_extract", "base_extract">>

\* The statements of icrp107(), in order.
icrp107_steps == <<"data_fetch", "base_extract", "corr_fetch", "corr_extract">>

After(s) ==
    LET i == CHOOSE k \in 1..Len(icrp107_steps) : icrp107_steps[k] = s
    IN IF i = Len(icrp107_steps) THEN "icrp_ret" ELSE icrp107_steps[i + 1]

NoReq == [file |-> "none", from |-> 0, status |-> 0]

\* The cached archive a is present and its SHA-1 is the expected one.
Valid(a) == archive[a].exists /\ Sha1(archive[a].data) = checksum(a)

Old == File(<< <<"old", "old", "old">> >>)

InitFiles ==
    /\ remote \in [Archives -> Versions]
    /\ archive \in {f \in [Archives -> {NoFile} \cup {File(d) : d \in UNION {Prefixes(Image(a, v)) : a \in Archives, v \in Versions}}] :
           \A a \in Archives :
               f[a].exists =>
                   f[a].data \in Prefixes(Image(a, remote[a])) \cup {Image(a, "genuine")}}
    /\ \/ outDir = FALSE /\ out = [f \in OutNames |-> NoFile]
       \/ outDir = TRUE /\ out \in {[f \in OutNames |-> NoFile], [f \in OutNames |-> Old]}
    /\ nist = [f \in {"material_constants", "01"} |-> NoFile]

\* Command lines of the runs that are repeated in one working directory.
RunArgs ==
    {[omitted |-> TRUE, values |-> <<>>],
     [omitted |-> FALSE, values |-> <<"icrp107">>],
     [omitted |-> FALSE, values |-> <<"icrp107", "icrp107">>]}

NewProcess ==
    /\ pc' = "start"
    /\ args' \in RunArgs
    /\ datasets' = <<>>
    /\ idx' = 1
    /\ invoked' = <<>>
    /\ err' = "none"
    /\ gets' = 0
    /\ lastReq' = NoReq
    /\ step' = 1
    /\ warm' = FALSE
    /\ g0' = 0

\* Working directories of the selector's specification: each archive is
\* present, either empty or cached and valid.
InitFilesCli ==
    /\ remote = [a \in Archives |-> "genuine"]
    /\ archive \in {f \in [Archives -> {File(<<>>)} \cup {File(Image(a, "genuine")) : a \in Archives}] :
           \A a \in Archives : f[a].data \in {<<>>, Image(a, "genuine")}}
    /\ outDir \in BOOLEAN
    /\ out = [f \in OutNames |-> NoFile]
    /\ nist = [f \in {"material_constants", "01"} |-> NoFile]

InitProcess ==
    /\ pc = "start"
    /\ datasets = <<>>
    /\ idx = 1
    /\ invoked = <<>>
    /\ err = "none"
    /\ gets = 0
    /\ lastReq = NoReq
    /\ step = 1
    /\ runs = 1
    /\ prevOut = [valid |-> FALSE, files |-> [f \in OutNames |-> NoFile]]
    /\ warm = FALSE
    /\ g0 = 0

NotScraped == [err |-> "none", table |-> <<>>]

Init ==
    /\ InitFiles
    /\ args \in RunArgs
    /\ InitProcess
    /\ page = <<>>
    /\ scraped = NotScraped

InitCli ==
    /\ InitFilesCli
    /\ args \in ArgChoices
    /\ InitProcess
    /\ page = <<>>
    /\ scraped = NotScraped

Raise(e) == pc' = "crashed" /\ err' = e

\* parser.parse_args() and the choice of the list to loop over
ParseArgs ==
    /\ pc = "start"
    /\ IF ParseAccepts(args)
       THEN pc' = "loop" /\ datasets' = Select(args) /\ err' = err
       ELSE pc' = "rejected" /\ err' = "SystemExit" /\ datasets' = datasets
    /\ UNCHANGED <<args, idx, invoked, archive, out, outDir, remote, gets,
                   lastReq, step, nist, runs, prevOut, warm, g0, page, scraped>>

\* for ds in datasets: the loop is over
LoopDone ==
    /\ pc = "loop"
    /\ idx > Len(datasets)
    /\ pc' = "done"
    /\ UNCHANGED <<args, datasets, idx, invoked, err, archive, out, outDir,
                   remote, gets, lastReq, step, nist, runs, prevOut, warm, g0,
                   page, scraped>>

\* for ds in datasets: one iteration, up to the call of the assembler.  A
\* name that is neither dataset is passed over.
LoopCall ==
    /\ pc = "loop"
    /\ idx <= Len(datasets)
    /\ IF datasets[idx] = "icrp107"
       THEN /\ pc' = icrp107_steps[1]
            /\ invoked' = Append(invoked, "icrp107")
            /\ warm' = (Valid("data") /\ Valid("corr"))
            /\ g0' = gets
            /\ step' = 1
            /\ idx' = idx
       ELSE IF datasets[idx] = "nist_mass_attenuation_coefficient"
       THEN /\ pc' = "nist_material"
            /\ invoked' = Append(invoked, "nist_mass_attenuation_coefficient")
            /\ UNCHANGED <<warm, g0, step, idx>>
       ELSE /\ pc' = "loop"
            /\ idx' = idx + 1
            /\ UNCHANGED <<invoked, warm, g0, step>>
    /\ UNCHANGED <<args, datasets, err, archive, out, outDir, remote, gets,
                   lastReq, nist, runs, prevOut, page, scraped>>

\* download_with_check(url, checksum, file) for archive a
Fetch(a, here) ==
    /\ pc = here
    /\ IF ~archive[a].exists
       THEN /\ Raise("FileNotFoundError")
            /\ UNCHANGED <<archive, gets, lastReq>>
       ELSE IF verify_file(archive[a], checksum(a))
       THEN /\ pc' = After(here)
            /\ UNCHANGED <<err, archive, gets, lastReq>>
       ELSE \/ /\ Raise("ConnectionError")
               /\ gets' = gets + 1
               /\ lastReq' = [file |-> a, from |-> Len(archive[a].data), status |-> 0]
               /\ UNCHANGED archive
            \/ \E status \in Statuses(Image(a, remote[a]), Len(archive[a].data)) :
               \E written \in WrittenChoices(archive[a], Image(a, remote[a]), status) :
                  LET r == download_file(archive[a], Image(a, remote[a]), status, written)
                  IN /\ archive' = [archive EXCEPT ![a] = r.file]
                     /\ gets' = gets + 1
                     /\ lastReq' = [file |-> a, from |-> r.from, status |-> status]
                     /\ IF r.full
                        THEN pc' = After(here) /\ err' = err
                        ELSE pc' = "killed" /\ err' = "KeyboardInterrupt"
    /\ UNCHANGED <<args, datasets, idx, invoked, out, outDir, remote, step,
                   nist, runs, prevOut, warm, g0, page, scraped>>

DataFetch == Fetch("data", "data_fetch")

CorrFetch == Fetch("corr", "corr_fetch")

\* One iteration of the loop over the five base members
BaseExtract ==
    /\ pc = "base_extract"
    /\ LET f == base_files[step]
           r == extract_file_from_zip(<<base_path, f>>, archive["data"], out[f], outDir)
       IN /\ out' = [out EXCEPT ![f] = r.out]
          /\ IF r.err # "none"
             THEN Raise(r.err) /\ step' = step
             ELSE IF step < Len(base_files)
             THEN pc' = pc /\ step' = step + 1 /\ err' = err
             ELSE pc' = After("base_extract") /\ step' = step /\ err' = err
    /\ UNCHANGED <<args, datasets, idx, invoked, archive, outDir, remote, gets,
                   lastReq, nist, runs, prevOut, warm, g0, page, scraped>>

\* The extraction of the corrigenda index over icrp107/ICRP-07.NDX
CorrExtract ==
    /\ pc = "corr_extract"
    /\ LET f == "ICRP-07.NDX"
           r == extract_file_from_zip(<<corr_path, f>>, archive["corr"], out[f], outDir)
       IN /\ out' = [out EXCEPT ![f] = r.out]
          /\ IF r.err # "none"
             THEN Raise(r.err)
             ELSE pc' = After("corr_extract") /\ err' = err
    /\ UNCHANGED <<args, datasets, idx, invoked, archive, outDir, remote, gets,
                   lastReq, step, nist, runs, prevOut, warm, g0, page, scraped>>

\* icrp107() returns to the loop
IcrpReturn ==
    /\ pc = "icrp_ret"
    /\ pc' = "loop"
    /\ idx' = idx + 1
    /\ prevOut' = [valid |-> TRUE, files |-> out]
    /\ UNCHANGED <<args, datasets, invoked, err, archive, out, outDir, remote,
                   gets, lastReq, step, nist, runs, warm, g0, page, scraped>>

\* os.makedirs, then the material_constants file: it is opened for writing
\* (and so emptied) before the page is fetched and scraped.
NistMaterial ==
    /\ pc = "nist_material"
    /\ gets' = gets + 1
    /\ \/ /\ Raise("ConnectionError")
          /\ nist' = [nist EXCEPT !["material_constants"] = File(<<>>)]
       \/ \E p \in SamplePages :
            LET r == nist_material_constants(p)
            IN IF r.err # "none"
               THEN /\ Raise(r.err)
                    /\ nist' = [nist EXCEPT !["material_constants"] = File(<<>>)]
               ELSE /\ pc' = "nist_element"
                    /\ err' = err
                    /\ nist' = [nist EXCEPT !["material_constants"] = File(r.table)]
    /\ UNCHANGED <<args, datasets, idx, invoked, archive, out, outDir, remote,
                   lastReq, step, runs, prevOut, warm, g0, page, scraped>>

\* for z in range(1, 2): the file of element 1, then the return to the loop
NistElement ==
    /\ pc = "nist_element"
    /\ gets' = gets + 1
    /\ \/ /\ Raise("ConnectionError")
          /\ nist' = [nist EXCEPT !["01"] = File(<<>>)]
          /\ idx' = idx
       \/ \E p \in ElemPages :
            LET r == nist_elemental_media(p)
            IN IF r.err # "none"
               THEN /\ Raise(r.err)
                    /\ nist' = [nist EXCEPT !["01"] = File(<<>>)]
                    /\ idx' = idx
               ELSE /\ pc' = "loop"
                    /\ err' = err
                    /\ idx' = idx + 1
                    /\ nist' = [nist EXCEPT !["01"] = File(r.table)]
    /\ UNCHANGED <<args, datasets, invoked, archive, out, outDir, remote,
                   lastReq, step, runs, prevOut, warm, g0, page, scraped>>

\* The script is run again in the same working directory.
Restart ==
    /\ pc \in {"done", "crashed", "rejected", "killed"}
    /\ runs < MaxRuns
    /\ runs' = runs + 1
    /\ NewProcess
    /\ UNCHANGED <<archive, out, outDir, remote, nist, prevOut, page, scraped>>

\* One process, from the command line to its end
NextCli ==
    \/ ParseArgs
    \/ LoopDone
    \/ LoopCall
    \/ DataFetch
    \/ BaseExtract
    \/ CorrFetch
    \/ CorrExtract
    \/ IcrpReturn
    \/ NistMaterial
    \/ NistElement

Next == NextCli \/ Restart

Spec == Init /\ [][Next]_vars

SpecCli == InitCli /\ [][NextCli]_vars

-----------------------------------------------------------------------------
(* The scraper on its own: nist_material_constants applied to every page   *)
(* of at most MaxPage tokens.                                              *)

InitScrape ==
    /\ page \in SeqsUpTo(Tokens, MaxPage)
    /\ scraped = NotScraped
    /\ pc = "scrape"
    /\ args = [omitted |-> TRUE, values |-> <<>>]
    /\ datasets = <<>>
    /\ idx = 1
    /\ invoked = <<>>
    /\ err = "none"
    /\ gets = 0
    /\ lastReq = NoReq
    /\ step = 1
    /\ runs = 1
    /\ prevOut = [valid |-> FALSE, files |-> [f \in OutNames |-> NoFile]]
    /\ warm = FALSE
    /\ g0 = 0
    /\ remote = [a \in Archives |-> "genuine"]
    /\ archive = [a \in Archives |-> NoFile]
    /\ outDir = FALSE
    /\ out = [f \in OutNames |-> NoFile]
    /\ nist = [f \in {"material_constants", "01"} |-> NoFile]

Scrape ==
    /\ pc = "scrape"
    /\ scraped' = nist_material_constants(page)
    /\ pc' = "scraped"
    /\ UNCHANGED <<args, datasets, idx, invoked, err, archive, out, outDir,
                   remote, gets, lastReq, step, nist, runs, prevOut, warm, g0,
                   page>>

SpecScrape == InitScrape /\ [][Scrape]_vars

-----------------------------------------------------------------------------
(* Properties *)

FetchPc(a) == IF a = "data" THEN "data_fetch" ELSE "corr_fetch"

\* A step that is one whole call of download_with_check for archive a.
FetchCall(a) == pc = FetchPc(a) /\ pc' # pc

\* The call returned to icrp107() without an exception or an interruption.
Returned(a) == pc' = After(FetchPc(a))

IsStrictPrefix(s, t) == Len(s) < Len(t) /\ SubSeq(t, 1, Len(s)) = s

IsPrefixOf(s, t) == Len(s) <= Len(t) /\ SubSeq(t, 1, Len(s)) = s

\* C1: ensure_fetched issues no GET and leaves the file as it is when the
\* file exists and its SHA-1 is the expected checksum, and issues exactly one
\* GET in every other case, the file not existing included.
C1_NoOpOrOneDownload ==
    [][\A a \in Archives :
          FetchCall(a) =>
              IF archive[a].exists /\ Sha1(archive[a].data) = checksum(a)
              THEN gets' = gets /\ archive' = archive
              ELSE gets' = gets + 1]_vars

C3_CorrigendaIndexLast ==
    pc = "icrp_ret" =>
        /\ IsZip(archive["corr"].data) /\ IsZip(archive["data"].data)
        /\ out["ICRP-07.NDX"]
               = File(ZipRead(archive["corr"].data, <<corr_path, "ICRP-07.NDX">>))
        /\ out["ICRP-07.NDX"]
               # File(ZipRead(archive["data"].data, <<base_path, "ICRP-07.NDX">>))
        /\ \A f \in OutNames \ {"ICRP-07.NDX"} :
               out[f] = File(ZipRead(archive["data"].data, <<base_path, f>>))

C3_Completed ==
    pc = "icrp_ret" /\ out["ICRP-07.NDX"].exists /\ gets > g0

\* C4: a completed icrp107() leaves the five output files as the previous
\* completed icrp107() left them, and issues no GET when both cached
\* archives were valid when it began.
C4_Idempotent ==
    pc = "icrp_ret" =>
        /\ prevOut.valid => out = prevOut.files
        /\ warm => gets = g0

C4_SecondRunWarm ==
    pc = "icrp_ret" /\ prevOut.valid /\ warm /\ runs = 2

\* C5: when the response's status is neither 200 nor 206, download_file
\* leaves the destination file as it was and returns normally.
C5_StatusIgnored ==
    [][\A a \in Archives :
          (FetchCall(a) /\ gets' = gets + 1 /\ lastReq'.status \notin {0, 200, 206})
              => archive' = archive /\ Returned(a) /\ err' = "none"]_vars

C5_Ignored404 ==
    /\ lastReq.status = 404
    /\ lastReq.file = "data"
    /\ pc = "base_extract"
    /\ ~Valid("data")

HasUnknown(a) == ~a.omitted /\ \E i \in 1..Len(a.values) : a.values[i] \notin choices

\* C6: a command line with a name outside all, icrp107,
\* nist_mass_attenuation_coefficient is rejected by the parser: no assembler
\* is invoked, no GET is issued and no file is written, also when valid names
\* precede the unknown one.
C6_UnknownRejected ==
    /\ [](HasUnknown(args) =>
             /\ pc \in {"start", "rejected"}
             /\ invoked = <<>>
             /\ gets = 0)
    /\ [][HasUnknown(args) => UNCHANGED <<archive, out, outDir, nist>>]_vars

C6_RejectedAfterValidName ==
    /\ pc = "rejected"
    /\ Len(args.values) = 2
    /\ args.values[1] = "icrp107"
    /\ args.values[2] = "bogus"
    /\ archive["data"].exists

\* The assemblers a valid command line asks for, in order.
Requested(a) ==
    IF a.omitted \/ \E i \in 1..Len(a.values) : a.values[i] = "all"
    THEN <<"icrp107", "nist_mass_attenuation_coefficient">>
    ELSE a.values

\* C7 as claimed: for every valid command line the process, when it has
\* ended, has invoked the assembler of each requested name once, in the
\* order requested (every assembler for all or an omitted flag).
C7_EachInvoked ==
    (~HasUnknown(args) /\ pc \in {"done", "crashed", "killed"})
        => invoked = Requested(args)

\* C7 amended: the assemblers invoked are always a prefix of the requested
\* ones in the order requested, and all of them when the process ends without
\* an exception; an assembler that raises ends the process before the rest.
C7_InvokedInOrder ==
    (~HasUnknown(args) /\ pc # "start") =>
        /\ IsPrefixOf(invoked, Requested(args))
        /\ pc = "done" => invoked = Requested(args)
        /\ pc = "loop" => Len(invoked) = idx - 1

C7_BothInRequestedOrder ==
    /\ pc = "done"
    /\ args.values = <<"nist_mass_attenuation_coefficient", "icrp107">>
    /\ invoked = args.values

\* The member path the extraction at the current position asks for is
\* missing from the readable archive it reads.
MissingAt(a, path) ==
    /\ archive[a].exists
    /\ IsZip(archive[a].data)
    /\ ~ZipHas(archive[a].data, path)

\* C8: an extraction whose member path is not in the archive fails with the
\* missing-entry error (KeyError) and leaves every output file as it was:
\* not truncated, not overwritten, not created.
C8_MissingMember ==
    [][/\ (pc = "base_extract" /\ MissingAt("data", <<base_path, base_files[step]>>))
           => (pc' = "crashed" /\ err' = "KeyError" /\ out' = out)
       /\ (pc = "corr_extract" /\ MissingAt("corr", <<corr_path, "ICRP-07.NDX">>))
           => (pc' = "crashed" /\ err' = "KeyError" /\ out' = out)]_vars

C8_MissingKeptOld ==
    /\ pc = "crashed"
    /\ err = "KeyError"
    /\ step = 3
    /\ outDir
    /\ out["ICRP-07.BET"] = Old
    /\ out["ICRP-07.RAD"] # Old

\* The end of the first <TABLE>...</TABLE> block that starts at i.
FirstEnd(h, i) == Min(TableEnds(h, i))

\* C9: the scraper's data rows are the <TR> rows of the first
\* <TABLE>...</TABLE> block of the page, less the first three, in page order,
\* after the two literal rows; rows of a later table are not among them.
C9_FirstTableOnly ==
    (pc = "scraped" /\ scraped.err = "none") =>
        LET html == StripCRLF(page)
            i == Min(TableStarts(html))
            rows == Drop3(RowsIn(html, i, FirstEnd(html, i)))
        IN scraped.table
               = TableHeader \o [k \in 1..Len(rows) |-> <<"row", rows[k]>>]

\* C10: when the cached file is a strict prefix of the remote content,
\* ensure_fetched issues one GET with the range starting at the file's
\* length, and when the answer is 200 with the whole content or 206 with the
\* rest and the call returns, the file holds exactly the remote content.
C10_ResumeCompletes ==
    [][\A a \in Archives :
          (/\ FetchCall(a)
           /\ archive[a].exists
           /\ remote[a] = "genuine"
           /\ IsStrictPrefix(archive[a].data, Image(a, remote[a])))
              => /\ gets' = gets + 1
                 /\ lastReq'.from = Len(archive[a].data)
                 /\ (Returned(a) /\ lastReq'.status \in {200, 206})
                        => /\ archive'[a].data = Image(a, remote[a])
                           /\ Sha1(archive'[a].data) = checksum(a)]_vars

====
